---- MODULE Spec2Model ----
(***************************************************************************)
(* A model of the Turing machine emulator: the Tape with its auto-         *)
(* extending accessors, the TransitionTable with its lookup, and the       *)
(* TuringMachine with step and the interactive run loop (src/model.py).    *)
(*                                                                         *)
(* Parser with its scope stack (src/parser.py, src/tools.py).              *)
(*                                                                         *)
(* Six specifications share the variables:                                 *)
(*   TapeSpec    the Tape alone, under any sequence of its accessors;      *)
(*   StepSpec    one machine, any current state and tape, under step;      *)
(*   RunSpec     the run loop of a machine built from a parsed table;      *)
(*   ParseSpec   Parser.parse on a source, then make_turing_machine and    *)
(*               the first step of run;                                    *)
(*   ReparseSpec one source parsed by two Parsers, one after the other;    *)
(*   BuildSpec   the machines one process constructs.                      *)
(***************************************************************************)
EXTENDS Integers, Sequences, FiniteSets, TLC

VARIABLES
    states,     \* TransitionTable._states: the ordered list of State objects
    removed,    \* State objects make_turing_machine took out of the table
    state,      \* TuringMachine._state: the current State object
    tape,       \* Tape._tape: the list of cells
    head,       \* Tape._head
    halt,       \* TuringMachine._halt
    alphabet,   \* TuringMachine._alphabet
    step,       \* run: the local step counter
    inpt,       \* run: the local holding the last answer of input()
    pc,         \* run: the position in the loop
    batch,      \* run: iterations left of `for x in range(int(inpt))`
    prompts,    \* how many times input() has been called
    applied,    \* transitions applied since the last answer of input()
    ret,        \* what the last call of step returned (or "none"/"raised")
    trans,      \* the transition the last call of step selected (or NoTransition)
    readchar,   \* the symbol the last call of step read under the head
    op,         \* the last Tape accessor called, with its argument
    pending,    \* Parser.parse: the characters of the item being scanned still in queue
    scopes,     \* Parser.parse: scopes.scopes, the stack of (scope, name)
    buffer,     \* Parser.parse: the local buffer
    subbuffer,  \* Parser.parse: the local subbuffer
    errors,     \* Parser.parse: the local errors
    bound,      \* Parser.parse: whether the local `state` has been assigned
    ptape,      \* Parser.tape
    palphabet,  \* Parser.alphabet
    initial,    \* Parser.initial: the name of the State, or NoName for None
    phalt,      \* Parser.halt: the names of its State objects
    ppc,        \* the position in Parser.parse / make_turing_machine
    item        \* the item being scanned, with the parser's state when it began

vars == <<states, removed, state, tape, head, halt, alphabet, step, inpt, pc,
          batch, prompts, applied, ret, trans, readchar, op, pending, scopes,
          buffer, subbuffer, errors, bound, ptape, palphabet, initial, phalt,
          ppc, item>>

machineVars == <<states, removed, state, halt, alphabet>>
runVars == <<step, inpt, pc, batch, prompts, applied>>
stepVars == <<ret, trans, readchar>>
parseVars == <<pending, scopes, buffer, subbuffer, errors, bound, ptape, palphabet,
               initial, phalt, ppc, item>>

----------------------------------------------------------------------------
(* Program constants: src/model.py:14-17 *)
LEFT == "L"
RIGHT == "R"
BLANK == "_"
ANY == "*"

(* Bounds of the model *)
MaxTape == 4          \* no accessor is called that would grow the tape past this
MaxInitTape == 2      \* longest tape string a machine is constructed with
MaxOff == 2           \* TapeSpec: how far outside the tape an access reaches

Symbols == {"0", "1", BLANK}
\* the symbols of the tape strings machines are constructed with
InitSymbols == {"0", BLANK}

----------------------------------------------------------------------------
(* Tape: src/model.py:101-240.  A Tape value is [tape, head].              *)

RECURSIVE AppendBlanks(_, _)
\* `while value >= len(self.tape): self.tape.append(BLANK)`
AppendBlanks(cells, value) ==
    IF value >= Len(cells) THEN AppendBlanks(Append(cells, BLANK), value)
    ELSE cells

\* a head setter that stores the value without extending the tape on the right
HeadSetterNoAppend(T, value) ==
    IF value < 0
    THEN [tape |-> [i \in 1..(Len(T.tape) - value) |->
                      IF i <= -value THEN BLANK ELSE T.tape[i + value]],
          head |-> 0]
    ELSE [T EXCEPT !.head = value]

RECURSIVE HeadLoop(_, _)
RECURSIVE HeadSetter(_, _)
\* the second loop of the setter; `self.head += 1` is itself a call of the setter
HeadLoop(T, value) ==
    IF value < 0
    THEN HeadLoop(HeadSetter([T EXCEPT !.tape = <<BLANK>> \o T.tape], T.head + 1),
                  value + 1)
    ELSE [T EXCEPT !.head = value]

\* Tape.head (setter)
HeadSetter(T, value) ==
    HeadLoop([T EXCEPT !.tape = AppendBlanks(T.tape, value)], value)

RECURSIVE IndexLoopNoShift(_, _)
\* the insert loop without `self.head += 1`
IndexLoopNoShift(T, index) ==
    IF index < 0
    THEN IndexLoopNoShift([T EXCEPT !.tape = <<BLANK>> \o T.tape], index + 1)
    ELSE [tape |-> T.tape, head |-> T.head, index |-> index]

RECURSIVE IndexLoop(_, _)
\* the insert loop shared by __getitem__ and __setitem__, on the absolute index;
\* the result carries the index as shifted by the insertions
IndexLoop(T, index) ==
    IF index < 0
    THEN IndexLoop(HeadSetter([T EXCEPT !.tape = <<BLANK>> \o T.tape], T.head + 1),
                   index + 1)
    ELSE [tape |-> T.tape, head |-> T.head, index |-> index]

\* both loops of __getitem__ / __setitem__ for the relative index
Extend(T, index) ==
    IndexLoop([T EXCEPT !.tape = AppendBlanks(T.tape, T.head + index)],
              T.head + index)

\* Tape.__getitem__: the tape after the read, and the value read
GetItem(T, index) ==
    LET E == Extend(T, index)
    IN  [tape |-> E.tape, head |-> E.head, value |-> E.tape[E.index + 1]]

\* a __setitem__ that stores the wildcard like any other symbol
SetItemAny(T, index, value) ==
    LET E == Extend(T, index)
    IN  [tape |-> [E.tape EXCEPT ![E.index + 1] = value], head |-> E.head]

\* Tape.__setitem__
SetItem(T, index, value) ==
    LET E == Extend(T, index)
    IN  [tape |-> IF value # ANY THEN [E.tape EXCEPT ![E.index + 1] = value]
                  ELSE E.tape,
         head |-> E.head]

\* Tape.move_head: raised is TRUE when the direction is unknown (ValueError)
MoveHead(T, direction) ==
    IF direction = LEFT
        THEN [tape |-> HeadSetter(T, T.head - 1).tape,
              head |-> HeadSetter(T, T.head - 1).head, raised |-> FALSE]
    ELSE IF direction = RIGHT
        THEN [tape |-> HeadSetter(T, T.head + 1).tape,
              head |-> HeadSetter(T, T.head + 1).head, raised |-> FALSE]
    ELSE IF direction = ANY
        THEN [tape |-> T.tape, head |-> T.head, raised |-> FALSE]
    ELSE [tape |-> T.tape, head |-> T.head, raised |-> TRUE]

RECURSIVE FancyFrom(_, _, _)
\* Tape.fancy: `for index in range(-span, span + 1)` reads self[index]
FancyFrom(T, index, span) ==
    IF index > span THEN T
    ELSE LET G == GetItem(T, index)
         IN  FancyFrom([tape |-> G.tape, head |-> G.head], index + 1, span)

\* Tape.fancy for a terminal of `width` columns: span = width // 4 - 1
Fancy(T, width) == FancyFrom(T, -((width \div 4) - 1), (width \div 4) - 1)

\* Tape.__init__ from a string: one cell per character, head 0
TapeInit(string) == [tape |-> string, head |-> 0]

TheTape == [tape |-> tape, head |-> head]

\* `None`, as TransitionTable.__call__ returns it; no field of a parsed
\* transition can hold this text
NoTransition == [state |-> "<None>", char |-> "<None>", new_state |-> "<None>",
                 new_char |-> "<None>", direction |-> "<None>"]

----------------------------------------------------------------------------
(* State, Transition, TransitionTable: src/model.py:19-349.                *)
(* A State object is [name, transitions]; transitions is the dict's values *)
(* in insertion order, keyed by their char.  A Transition names its states.*)

\* State.__str__
StateStr(name) == "<State " \o name \o ">"

\* State.__eq__: two State objects are equal when their texts are
StateEq(a, b) == StateStr(a.name) = StateStr(b.name)

\* State(name): a fresh object without transitions
NewState(name) == [name |-> name, transitions |-> <<>>]

\* `state in self.states`
InStates(S, st) == \E i \in DOMAIN S : StateEq(S[i], st)

\* an assignment that takes a present key out and puts the entry at the end
DictSetAtEnd(d, value) ==
    Append(SelectSeq(d, LAMBDA e : e.char # value.char), value)

\* dict assignment d[key] = value: a present key keeps its position
DictSet(d, value) ==
    IF \E i \in DOMAIN d : d[i].char = value.char
    THEN [i \in DOMAIN d |-> IF d[i].char = value.char THEN value ELSE d[i]]
    ELSE Append(d, value)

\* append(State) without the membership test
AppendStateAlways(S, st) == Append(S, st)

\* TransitionTable.append(State)
AppendState(S, st) == IF ~InStates(S, st) THEN Append(S, st) ELSE S

\* TransitionTable.append(Transition)
AppendTransition(S, t) ==
    LET S1 == IF ~InStates(S, NewState(t.state))
              THEN Append(S, NewState(t.state)) ELSE S
        S2 == IF ~InStates(S1, NewState(t.new_state))
              THEN Append(S1, NewState(t.new_state)) ELSE S1
    IN  [i \in DOMAIN S2 |->
           IF StateEq(S2[i], NewState(t.state))
           THEN [S2[i] EXCEPT !.transitions = DictSet(@, t)]
           ELSE S2[i]]

\* TransitionTable.append(list): other = [state, char, State(new_state), new_char, direction]
AppendList(S, other) ==
    LET S1 == IF ~InStates(S, NewState(other[1]))
              THEN AppendState(S, NewState(other[1])) ELSE S
        S2 == IF ~InStates(S1, NewState(other[3]))
              THEN AppendState(S1, NewState(other[3])) ELSE S1
    IN  AppendTransition(S2, [state |-> other[1], char |-> other[2],
                              new_state |-> other[3], new_char |-> other[4],
                              direction |-> other[5]])

\* a scan that takes an exact match before any wildcard
ExactFirst(ts, i, char) ==
    IF \E j \in i..Len(ts) : ts[j].char = char
    THEN ts[CHOOSE j \in i..Len(ts) :
              ts[j].char = char /\ \A k \in i..(j - 1) : ts[k].char # char]
    ELSE IF \E j \in i..Len(ts) : ts[j].char = ANY
    THEN ts[CHOOSE j \in i..Len(ts) :
              ts[j].char = ANY /\ \A k \in i..(j - 1) : ts[k].char # ANY]
    ELSE NoTransition

RECURSIVE FirstMatch(_, _, _)
\* `for transition in state.transitions: if transition.char == char or
\* transition.char == ANY: return transition`, from position i
FirstMatch(ts, i, char) ==
    IF i > Len(ts) THEN NoTransition
    ELSE IF ts[i].char = char \/ ts[i].char = ANY THEN ts[i]
    ELSE FirstMatch(ts, i + 1, char)

RECURSIVE CallFrom(_, _, _, _)
\* the outer loop of __call__ from position i, `state` being st
CallFrom(S, i, st, char) ==
    IF i > Len(S) THEN NoTransition
    ELSE LET cur == IF StateEq(S[i], st) THEN S[i] ELSE st
             found == FirstMatch(cur.transitions, 1, char)
         IN  IF found # NoTransition THEN found
             ELSE CallFrom(S, i + 1, cur, char)

\* TransitionTable.__call__
Call(S, st, char) == CallFrom(S, 1, st, char)

\* the State object a transition's new_state refers to: append made it the
\* table's object of that name, which make_turing_machine may have removed since
ObjOf(S, R, name) ==
    IF InStates(S, NewState(name))
    THEN S[CHOOSE i \in DOMAIN S : StateEq(S[i], NewState(name))]
    ELSE IF InStates(R, NewState(name))
    THEN R[CHOOSE i \in DOMAIN R : StateEq(R[i], NewState(name))]
    ELSE NewState(name)

----------------------------------------------------------------------------
(* TuringMachine: src/model.py:351-513, built by Parser.make_turing_machine *)
(* (src/parser.py:495-515).                                                *)

\* an entry of the halt list is the str 'HALT' or a State object; str() of it
PyStr(x) == IF x.kind = "str" THEN x.name ELSE StateStr(x.name)

\* the class attributes _halt and _alphabet
DefaultHalt == <<[kind |-> "str", name |-> "HALT"]>>
DefaultAlphabet == <<BLANK, "0", "1">>

\* `self.state in self.halt`: some entry equals the state; a str entry defers
\* to State.__eq__, which compares the texts
InHalt(H, st) == \E i \in DOMAIN H : PyStr(H[i]) = StateStr(st.name)

\* make_turing_machine: the states named '' leave the table
KeptStates(S) == SelectSeq(S, LAMBDA st : st.name # "")
RemovedStates(S) == SelectSeq(S, LAMBDA st : st.name = "")

\* terminal widths `tput cols` may report; fancy reads width // 4 - 1 cells
\* on either side of the head
MaxSpan == 1
Widths == {4 * k : k \in 0..(MaxSpan + 1)}

\* step that writes and moves before it looks for a transition
StepEager(S, R, st, T, width) ==
    LET G == GetItem(T, 0)
        t == Call(S, st, G.value)
        M == MoveHead([tape |-> G.tape, head |-> G.head], RIGHT)
    IN  IF t = NoTransition
        THEN [ret |-> "False", trans |-> t, char |-> G.value, state |-> st,
              tape |-> M.tape, head |-> M.head]
        ELSE LET W == SetItem([tape |-> G.tape, head |-> G.head], 0, t.new_char)
                 N == MoveHead(W, t.direction)
                 P == Fancy([tape |-> N.tape, head |-> N.head], width)
             IN  [ret |-> "True", trans |-> t, char |-> G.value,
                  state |-> ObjOf(S, R, t.new_state),
                  tape |-> P.tape, head |-> P.head]

\* TuringMachine.step on table S (removed states R), current state st, tape T,
\* in a terminal of `width` columns: what it returns ("raised" when move_head
\* raises ValueError), the transition selected, and the state and tape it leaves
Step(S, R, st, T, width) ==
    LET G == GetItem(T, 0)
        t == Call(S, st, G.value)
    IN  IF t = NoTransition
        THEN [ret |-> "False", trans |-> t, char |-> G.value, state |-> st,
              tape |-> G.tape, head |-> G.head]
        ELSE LET W == SetItem([tape |-> G.tape, head |-> G.head], 0, t.new_char)
                 M == MoveHead(W, t.direction)
                 P == Fancy([tape |-> M.tape, head |-> M.head], width)
             IN  IF M.raised
                 THEN [ret |-> "raised", trans |-> t, char |-> G.value,
                       state |-> ObjOf(S, R, t.new_state),
                       tape |-> W.tape, head |-> W.head]
                 ELSE [ret |-> "True", trans |-> t, char |-> G.value,
                       state |-> ObjOf(S, R, t.new_state),
                       tape |-> P.tape, head |-> P.head]

\* print_step: rendering reads the cells around the head (Tape.fancy)
PrintStep(T, width) == Fancy(T, width)

(* The tables: what TransitionTable.append makes of the `$` directives of a *)
(* source, each a list [state, char, new_state, new_char, direction]        *)
MaxTrans == 2
SrcNames == {"q0", "q1"}
ReadSyms == {"0", ANY}
\* what a directive makes the machine do: target, write symbol, direction
Effects == {<<"q1", "1", RIGHT>>, <<"HALT", ANY, LEFT>>, <<"q1", "1", ANY>>}
Buffers == {<<s, r, e[1], e[2], e[3]>> : s \in SrcNames, r \in ReadSyms, e \in Effects}

RECURSIVE Programs(_)
\* the sequences of 1..n directives
Programs(n) ==
    IF n = 0 THEN {}
    ELSE LET shorter == Programs(n - 1)
         IN  {<<b>> : b \in Buffers} \cup shorter
               \cup {Append(p, b) : p \in {q \in shorter : Len(q) = n - 1}, b \in Buffers}

RECURSIVE Build(_, _)
\* the table after the directives p[i..]
Build(S, p) == IF p = <<>> THEN S ELSE Build(AppendList(S, Head(p)), Tail(p))

Tables == {Build(<<>>, p) : p \in Programs(MaxTrans)}

\* the names the `$<name>` command is given
CmdNames == {"zz"}

----------------------------------------------------------------------------
(* Parser: src/parser.py.  Text is a sequence of characters; a name is the *)
(* str of its characters (Join).                                           *)

RECURSIVE Join(_)
\* the str of a sequence of characters
Join(cs) == IF cs = <<>> THEN "" ELSE Head(cs) \o Join(Tail(cs))

\* IGNORE (src/parser.py:12-15) and ALLOWED (src/tools.py:7-9)
IGNORE == {"\t", " "}
ALLOWED == {"#", BLANK}

\* the characters str.isalnum accepts, among those a source is written with
Alnum == {"a", "b", "f", "g", "q", "z", "R", "L", "0", "1"}

\* tools.allowed_state, allowed_transition, allowed_tape on one character
AllowedState(c) == c \in Alnum \/ c = "."
AllowedTransition(c) == c \in Alnum \/ c \in ALLOWED \cup {".", "*"}
AllowedTape(c) == c \in Alnum \/ c \in ALLOWED

\* `None` in Parser.initial and Parser.tape; no source can spell these
NoName == "<None>"
NoTape == <<"<None>">>

\* the names of the Scopes class that the stack holds
TSTR == "TSTR"
ASTS == "ASTS"
ATRS == "ATRS"
INIT == "INIT"
HLTS == "HALT"
ALPH == "ALPH"
FNSP == "FNSP"
NSPC == "NSPC"
CMNT == "CMNT"

\* a top that is the root namespace whatever the stack holds
TopRoot(sc) == NSPC

\* Scopes.top
Top(sc) == IF sc # <<>> THEN sc[Len(sc)].scope ELSE NSPC

\* Scopes.enter
Enter(sc, scope, name) == Append(sc, [scope |-> scope, name |-> name])

\* Scopes.exit when the stack is not empty and its top is the scope
Pop(sc) == SubSeq(sc, 1, Len(sc) - 1)

RECURSIVE JoinDots(_)
\* '.'.join(names)
JoinDots(names) ==
    IF names = <<>> THEN ""
    ELSE IF Len(names) = 1 THEN names[1]
    ELSE names[1] \o "." \o JoinDots(Tail(names))

\* the names of the namespaces on the stack, outermost first (a namespace is
\* entered with a non-empty name only, so the counter of extend_name is unused)
Prefix(sc) ==
    LET ns == SelectSeq(sc, LAMBDA e : e.scope = NSPC)
    IN  [i \in DOMAIN ns |-> ns[i].name]

\* extend_name without the namespaces
ExtendNameBare(sc, name) == name

\* Scopes.extend_name
ExtendName(sc, name) ==
    IF name # "" THEN JoinDots(Append(Prefix(sc), name)) ELSE JoinDots(Prefix(sc))

\* `State(name) in self.transitions` (TransitionTable.__contains__)
InTable(S, name) == InStates(S, NewState(name))

\* the parser between two characters: the locals of parse and the fields of
\* the Parser; crashed says that an exception other than ValueError left parse
TheParser ==
    [scopes |-> scopes, buffer |-> buffer, subbuffer |-> subbuffer,
     errors |-> errors, bound |-> bound, states |-> states, ptape |-> ptape,
     palphabet |-> palphabet, initial |-> initial, phalt |-> phalt,
     crashed |-> FALSE]

\* `subbuffer = ''; buffer = []`
Clear(P) == [P EXCEPT !.buffer = <<>>, !.subbuffer = <<>>]

\* `raise ValueError(...)`, caught by `except ValueError: errors += 1`
Fail(P) == [P EXCEPT !.errors = @ + 1]

\* an exception that `except ValueError` does not catch
Crash(P) == [P EXCEPT !.crashed = TRUE]

\* `buffer.append(subbuffer)`
Push(P) == [P EXCEPT !.buffer = Append(@, P.subbuffer)]

\* the scope of the top of the stack left by its terminator
Exited(P) == [P EXCEPT !.scopes = Pop(@)]

\* `subbuffer += char` if the scope allows the character, else ValueError
Accumulate(P, c, allowed) ==
    IF allowed THEN [P EXCEPT !.subbuffer = Append(@, c)] ELSE Fail(P)

\* case ('{', Scopes.FNSP): the namespace is entered and its state added; when
\* a state of that name exists the warning formats the local `state`, which
\* is an UnboundLocalError if nothing has assigned it, and State('') is added
OpenNamespace(P) ==
    IF P.subbuffer = <<>> THEN Fail(Clear(P))
    ELSE LET name == Join(P.subbuffer)
             E == [P EXCEPT !.scopes = Enter(@, NSPC, name)]
         IN  IF InTable(P.states, name)
             THEN IF ~P.bound THEN Crash(Clear(E))
                  ELSE Clear([E EXCEPT !.states = AppendState(@, NewState(""))])
             ELSE Clear([E EXCEPT !.states = AppendState(@, NewState(name))])

\* case ('}', Scopes.NSPC): the top is NSPC because a namespace is open or
\* because the stack is empty, where Scopes.exit raises
CloseNamespace(P) ==
    IF P.scopes # <<>> THEN Exited(P) ELSE Fail(Clear(P))

\* case (';', Scopes.TSTR)
EndTape(P) ==
    LET X == Exited(P)
    IN  IF P.subbuffer = <<>> THEN Fail(Clear(X))
        ELSE IF \E i \in DOMAIN P.subbuffer :
                   ~\E j \in DOMAIN P.palphabet : P.palphabet[j] = P.subbuffer[i]
        THEN Fail(Clear(X))
        ELSE Clear([X EXCEPT !.ptape = P.subbuffer])

\* `(not char.isalnum()) and (char not in ALLOWED)` for an entry of the buffer
BadSymbol(entry) ==
    /\ ~(entry # <<>> /\ \A i \in DOMAIN entry : entry[i] \in Alnum)
    /\ Join(entry) \notin ALLOWED

\* case (';', Scopes.ALPH)
EndAlphabet(P) ==
    LET X == Push(Exited(P))
        declared == [i \in DOMAIN X.buffer |-> Join(X.buffer[i])]
    IN  IF P.subbuffer = <<>> THEN Fail(Clear(X))
        ELSE IF \E i \in DOMAIN X.buffer : BadSymbol(X.buffer[i]) THEN Fail(Clear(X))
        ELSE Clear([X EXCEPT !.palphabet =
                       IF \E i \in DOMAIN declared : declared[i] = BLANK
                       THEN declared ELSE Append(declared, BLANK)])

\* the ATRS case without the lookup of a `.`-target in the table
EndTransitionUnchecked(P) ==
    LET X == Push(Exited(P))
        b == X.buffer
        source == ExtendName(X.scopes, IF Join(b[1]) # "*" THEN Join(b[1]) ELSE "")
        dotted == b[3][1] = "."
        target == IF dotted THEN Join(Tail(b[3])) ELSE ExtendName(X.scopes, Join(b[3]))
    IN  IF Len(b) # 5 THEN Fail(Clear(X))
        ELSE IF b[3] = <<>> THEN Crash(X)
        ELSE Clear([X EXCEPT !.states =
                       AppendList(@, <<source, Join(b[2]), target, Join(b[4]),
                                       Join(b[5])>>)])

\* case (';', Scopes.ATRS); buffer[2][0] of an empty target is an IndexError
EndTransition(P) ==
    LET X == Push(Exited(P))
        b == X.buffer
        source == ExtendName(X.scopes, IF Join(b[1]) # "*" THEN Join(b[1]) ELSE "")
        dotted == b[3][1] = "."
        target == IF dotted THEN Join(Tail(b[3])) ELSE ExtendName(X.scopes, Join(b[3]))
    IN  IF Len(b) # 5 THEN Fail(Clear(X))
        ELSE IF b[3] = <<>> THEN Crash(X)
        ELSE IF dotted /\ ~InTable(X.states, target) THEN Fail(Clear(X))
        ELSE Clear([X EXCEPT !.states =
                       AppendList(@, <<source, Join(b[2]), target, Join(b[4]),
                                       Join(b[5])>>)])

\* case (';', Scopes.INIT)
EndInitial(P) ==
    LET X == Exited(P)
    IN  IF P.subbuffer = <<>> THEN Fail(Clear(X))
        ELSE Clear([X EXCEPT !.initial = ExtendName(X.scopes, Join(P.subbuffer)),
                             !.bound = TRUE])

RECURSIVE HaltLoop(_, _)
\* `for state in buffer` of the HLTS case, from entry i
HaltLoop(X, i) ==
    IF i > Len(X.buffer) THEN Clear(X)
    ELSE LET name == ExtendName(X.scopes, Join(X.buffer[i]))
         IN  IF ~InTable(X.states, name) THEN Fail(Clear([X EXCEPT !.bound = TRUE]))
             ELSE HaltLoop([X EXCEPT !.phalt = Append(@, name), !.bound = TRUE], i + 1)

\* case (';', Scopes.HLTS): the empty body raises without clearing the buffer
EndHalt(P) ==
    LET X == Push(Exited(P))
    IN  IF P.subbuffer = <<>> THEN Fail(X) ELSE HaltLoop(X, 1)

\* case ('\n', Scopes.CMNT)
EndComment(P) == Exited(Clear(P))

RECURSIVE StatesLoop(_, _)
\* `for state in buffer` of the ASTS case, from entry i
StatesLoop(X, i) ==
    IF i > Len(X.buffer) THEN X
    ELSE StatesLoop([X EXCEPT
                       !.states = AppendState(@, NewState(ExtendName(X.scopes,
                                                             Join(X.buffer[i])))),
                       !.bound = TRUE], i + 1)

\* case (';', Scopes.ASTS): the empty body raises before the scope is left
EndStates(P) ==
    LET X == Push(P)
    IN  IF P.subbuffer = <<>> THEN Fail(Clear(X))
        ELSE Exited(Clear(StatesLoop(X, 1)))

\* one iteration of `while queue` for the character c: the match statement,
\* its cases in their order
Scan(P, c) ==
    LET top == Top(P.scopes)
    IN  IF c \in IGNORE THEN P
        ELSE IF c = "&" /\ top = NSPC THEN [P EXCEPT !.scopes = Enter(@, TSTR, "")]
        ELSE IF c = "@" /\ top = NSPC THEN [P EXCEPT !.scopes = Enter(@, ALPH, "")]
        ELSE IF c = "$" /\ top = NSPC THEN [P EXCEPT !.scopes = Enter(@, ATRS, "")]
        ELSE IF c = "!" /\ top = NSPC THEN [P EXCEPT !.scopes = Enter(@, INIT, "")]
        ELSE IF c = "~" /\ top = NSPC THEN [P EXCEPT !.scopes = Enter(@, HLTS, "")]
        ELSE IF c = "*" /\ top = NSPC THEN [P EXCEPT !.scopes = Enter(@, ASTS, "")]
        ELSE IF c = "#" /\ top = NSPC THEN [P EXCEPT !.scopes = Enter(@, CMNT, "")]
        ELSE IF c = "{" /\ top = FNSP THEN OpenNamespace(P)
        ELSE IF c = "}" /\ top = NSPC THEN CloseNamespace(P)
        ELSE IF c = ":" /\ top = NSPC THEN [P EXCEPT !.scopes = Enter(@, FNSP, "")]
        ELSE IF c = ";" /\ top = TSTR THEN EndTape(P)
        ELSE IF c = ";" /\ top = ALPH THEN EndAlphabet(P)
        ELSE IF c = ";" /\ top = ATRS THEN EndTransition(P)
        ELSE IF c = ";" /\ top = INIT THEN EndInitial(P)
        ELSE IF c = ";" /\ top = HLTS THEN EndHalt(P)
        ELSE IF c = "\n" /\ top = CMNT THEN EndComment(P)
        ELSE IF c = ";" /\ top = ASTS THEN EndStates(P)
        ELSE IF c = ":" /\ top \in {TSTR, INIT} THEN Fail(P)
        ELSE IF c = ":" THEN [Push(P) EXCEPT !.subbuffer = <<>>]
        ELSE IF c = ">" /\ top = ATRS THEN [Push(P) EXCEPT !.subbuffer = <<>>]
        ELSE IF c = "-" /\ top = ATRS THEN P
        ELSE IF c = "\n" THEN P
        ELSE IF top = CMNT THEN P
        ELSE IF top = FNSP THEN Accumulate(P, c, c \in Alnum)
        ELSE IF top = TSTR THEN Accumulate(P, c, AllowedTape(c))
        ELSE IF top = ALPH THEN Accumulate(P, c, c \in Alnum \/ c \in ALLOWED)
        ELSE IF top = ATRS THEN Accumulate(P, c, AllowedTransition(c))
        ELSE IF top \in {INIT, HLTS, ASTS} THEN Accumulate(P, c, AllowedState(c))
        ELSE Fail(P)

\* lines 476-493: the checks at the end of the input.  The first error message
\* formats the local `state` (UnboundLocalError if nothing has assigned it);
\* Tape(None) is a TypeError
Finish(P) ==
    LET checked ==
          IF P.initial = NoName \/ ~InTable(P.states, P.initial)
          THEN IF ~P.bound THEN Crash(P) ELSE Fail(P)
          ELSE IF \E i \in DOMAIN P.states : \E j \in DOMAIN P.states[i].transitions :
                     ~InTable(P.states, P.states[i].transitions[j].new_state)
          THEN Fail(P)
          ELSE P
    IN  IF checked.crashed \/ checked.errors > 0 THEN checked
        ELSE IF checked.ptape = NoTape THEN Crash(checked)
        ELSE checked

\* no parser at work
IdleParser ==
    /\ pending = <<>>
    /\ scopes = <<>>
    /\ buffer = <<>>
    /\ subbuffer = <<>>
    /\ errors = 0
    /\ bound = FALSE
    /\ ptape = NoTape
    /\ palphabet = <<>>
    /\ initial = NoName
    /\ phalt = <<>>
    /\ ppc = "idle"
    /\ item = [text |-> <<>>, before |-> <<>>, done |-> TRUE, n |-> 0, bad |-> 0]

----------------------------------------------------------------------------
(* TapeSpec: a Tape constructed from a tape string the parser accepts      *)
(* (non-empty, src/parser.py:254-265), then any sequence of accessor calls *)

RECURSIVE SeqsUpTo(_, _)
\* the sequences over S of length 1..n
SeqsUpTo(S, n) ==
    IF n = 0 THEN {}
    ELSE LET shorter == SeqsUpTo(S, n - 1)
         IN  {<<c>> : c \in S} \cup shorter
               \cup {Append(t, c) : t \in {u \in shorter : Len(u) = n - 1}, c \in S}

TapeStrings == SeqsUpTo(InitSymbols, MaxInitTape)

IdleMachine ==
    /\ states = <<>>
    /\ removed = <<>>
    /\ state = [name |-> "", transitions |-> <<>>]
    /\ halt = <<>>
    /\ alphabet = <<>>
IdleRun ==
    /\ step = 1
    /\ inpt = <<>>
    /\ pc = "idle"
    /\ batch = 0
    /\ prompts = 0
    /\ applied = 0
    /\ ret = "none"
    /\ trans = NoTransition
    /\ readchar = ""

TapeSpecInit ==
    /\ \E string \in TapeStrings :
          /\ tape = TapeInit(string).tape
          /\ head = TapeInit(string).head
    /\ op = [name |-> "init", arg |-> 0, value |-> "", len |-> 0]
    /\ IdleMachine
    /\ IdleRun
    /\ IdleParser

\* the indices an access may address: up to MaxOff cells outside the tape
Reach == (0 - MaxOff)..(Len(tape) - 1 + MaxOff)

TapeSetHead(value) ==
    /\ Len(HeadSetter(TheTape, value).tape) <= MaxTape
    /\ tape' = HeadSetter(TheTape, value).tape
    /\ head' = HeadSetter(TheTape, value).head
    /\ op' = [name |-> "head", arg |-> value, value |-> "",
              len |-> Len(tape)]
    /\ UNCHANGED <<machineVars, runVars, stepVars, parseVars>>

TapeMoveHead(direction) ==
    /\ ~MoveHead(TheTape, direction).raised
    /\ Len(MoveHead(TheTape, direction).tape) <= MaxTape
    /\ tape' = MoveHead(TheTape, direction).tape
    /\ head' = MoveHead(TheTape, direction).head
    /\ op' = [name |-> "move_head", arg |-> 0, value |-> direction,
              len |-> Len(tape)]
    /\ UNCHANGED <<machineVars, runVars, stepVars, parseVars>>

TapeGetItem(index) ==
    /\ Len(GetItem(TheTape, index).tape) <= MaxTape
    /\ tape' = GetItem(TheTape, index).tape
    /\ head' = GetItem(TheTape, index).head
    /\ op' = [name |-> "getitem", arg |-> index, value |-> GetItem(TheTape, index).value,
              len |-> Len(tape)]
    /\ UNCHANGED <<machineVars, runVars, stepVars, parseVars>>

TapeSetItem(index, value) ==
    /\ Len(SetItem(TheTape, index, value).tape) <= MaxTape
    /\ tape' = SetItem(TheTape, index, value).tape
    /\ head' = SetItem(TheTape, index, value).head
    /\ op' = [name |-> "setitem", arg |-> index, value |-> value,
              len |-> Len(tape)]
    /\ UNCHANGED <<machineVars, runVars, stepVars, parseVars>>

TapeSpecNext ==
    \/ \E value \in Reach : TapeSetHead(value)
    \/ \E direction \in {LEFT, RIGHT, ANY} : TapeMoveHead(direction)
    \/ \E index \in Reach : TapeGetItem(index - head)
    \/ \E index \in Reach, value \in Symbols \cup {ANY} : TapeSetItem(index - head, value)

TapeSpec == TapeSpecInit /\ [][TapeSpecNext]_vars

----------------------------------------------------------------------------
(* StepSpec: a machine over any table, as constructed on any tape string,  *)
(* in any current state (an object of the table, or State(name) as the `$` *)
(* command makes it), under repeated calls of step                         *)
StepSpecInit ==
    /\ \E S \in Tables :
          /\ states = KeptStates(S)
          /\ removed = RemovedStates(S)
          /\ state \in {S[i] : i \in DOMAIN S} \cup {NewState(n) : n \in CmdNames}
    /\ \E string \in TapeStrings :
          /\ tape = TapeInit(string).tape
          /\ head = TapeInit(string).head
    /\ halt = DefaultHalt
    /\ alphabet = DefaultAlphabet
    /\ op = [name |-> "init", arg |-> 0, value |-> "", len |-> 0]
    /\ IdleRun
    /\ IdleParser

\* one call of step
DoStep ==
    /\ ret # "raised"
    /\ \E width \in Widths :
          LET r == Step(states, removed, state, TheTape, width)
          IN  /\ Len(r.tape) <= MaxTape
              /\ ret' = r.ret
              /\ trans' = r.trans
              /\ readchar' = r.char
              /\ state' = r.state
              /\ tape' = r.tape
              /\ head' = r.head
    /\ UNCHANGED <<states, removed, halt, alphabet, runVars, op, parseVars>>

StepSpecNext == DoStep

StepSpec == StepSpecInit /\ [][StepSpecNext]_vars

----------------------------------------------------------------------------
(* RunSpec: TuringMachine.run (src/model.py:451-500) on a machine as       *)
(* Parser.parse and make_turing_machine hand it over.  An answer of        *)
(* input() is the sequence of its characters.                              *)

MaxPrompts == 1       \* answers input() gives in a run
MaxBatch == 2         \* the largest integer command

DigitChars == <<"0", "1", "2", "3", "4", "5", "6", "7", "8", "9">>

\* str.isdigit: not empty, digits only
IsDigit(cs) ==
    /\ cs # <<>>
    /\ \A i \in DOMAIN cs : \E d \in DOMAIN DigitChars : DigitChars[d] = cs[i]

RECURSIVE IntOf(_)
\* int(inpt) of a string of decimal digits
IntOf(cs) ==
    IF cs = <<>> THEN 0
    ELSE 10 * IntOf(SubSeq(cs, 1, Len(cs) - 1))
           + (CHOOSE d \in DOMAIN DigitChars : DigitChars[d] = cs[Len(cs)]) - 1

\* `inpt[1] in self.alphabet`
InAlphabet(A, c) == \E i \in DOMAIN A : A[i] = c

\* the answers input() gives
Answers ==
    {<<>>, <<"q">>, <<"r">>, <<"l">>, <<"+", "1">>, <<"+", "x">>,
     <<"$", "H", "A", "L", "T">>}
      \cup {<<DigitChars[n + 1]>> : n \in 0..MaxBatch}

\* the machines of one `$` directive
RunTables == {Build(<<>>, <<b>>) : b \in Buffers}

\* the alphabet the source declares with `@`
DeclaredAlphabet == <<"0", BLANK>>

RunSpecInit ==
    /\ \E S \in RunTables :
          /\ states = KeptStates(S)
          /\ removed = RemovedStates(S)
          \* `!<state>`: State(name), a state of the table at the end of parse
          /\ \E i \in DOMAIN KeptStates(S) : state = NewState(KeptStates(S)[i].name)
          \* `~<state>`: State objects of states in the table
          /\ \E hs \in {<<>>} \cup {<<[kind |-> "State", name |-> S[i].name]>> : i \in DOMAIN S} :
                halt = DefaultHalt \o hs
    /\ alphabet = DefaultAlphabet \o DeclaredAlphabet
    /\ \E string \in TapeStrings :
          /\ tape = TapeInit(string).tape
          /\ head = TapeInit(string).head
    /\ step = 1
    /\ inpt = <<>>
    /\ pc = "loop"
    /\ batch = 0
    /\ prompts = 0
    /\ applied = 0
    /\ ret = "none"
    /\ trans = NoTransition
    /\ readchar = ""
    /\ op = [name |-> "init", arg |-> 0, value |-> "", len |-> 0]
    /\ IdleParser

\* `while inpt != 'q'`: where control goes when it reaches the head of the loop
LoopTop(answer) == IF answer # <<"q">> THEN "loop" ELSE "done"

\* lines 461-471: one iteration of the outer loop up to its call of input()
RunStep ==
    /\ pc = "loop"
    /\ \E width \in Widths :
          LET r == Step(states, removed, state, TheTape, width)
              \* `if not self.step(step): print_step(...)`, which reads self.tape[0]
              P == IF r.ret = "False"
                   THEN PrintStep([tape |-> r.tape, head |-> r.head], width)
                   ELSE [tape |-> r.tape, head |-> r.head]
          IN  /\ Len(P.tape) <= MaxTape
              /\ ret' = r.ret
              /\ trans' = r.trans
              /\ readchar' = r.char
              /\ state' = r.state
              /\ tape' = P.tape
              /\ head' = P.head
              /\ applied' = IF r.ret = "True" THEN applied + 1 ELSE applied
              /\ IF r.ret = "raised"
                 THEN pc' = "crashed" /\ step' = step
                 ELSE /\ pc' = "input"
                      /\ step' = IF InHalt(halt, r.state) THEN step ELSE step + 1
    /\ UNCHANGED <<states, removed, halt, alphabet, inpt, batch, prompts, op, parseVars>>

\* input() returns '': the inner loop is not entered
AnswerEmpty ==
    /\ pc = "input"
    /\ prompts < MaxPrompts
    /\ inpt' = <<>>
    /\ prompts' = prompts + 1
    /\ applied' = 0
    /\ pc' = LoopTop(inpt')
    /\ UNCHANGED <<machineVars, tape, head, step, batch, stepVars, op, parseVars>>

\* input() returns digits: lines 474-475, up to the first iteration of the for loop
AnswerDigits(answer) ==
    /\ pc = "input"
    /\ prompts < MaxPrompts
    /\ IsDigit(answer)
    /\ inpt' = answer
    /\ prompts' = prompts + 1
    /\ applied' = 0
    /\ batch' = IntOf(answer)
    /\ pc' = IF IntOf(answer) > 0 THEN "batch" ELSE LoopTop(inpt')
    /\ UNCHANGED <<machineVars, tape, head, step, stepVars, op, parseVars>>

\* lines 476-480: one iteration of `for x in range(int(inpt))`; after the last
\* one `break` leaves the inner loop
BatchStep ==
    /\ pc = "batch"
    /\ batch > 0
    /\ \E width \in Widths :
          LET r == Step(states, removed, state, TheTape, width)
          IN  /\ Len(r.tape) <= MaxTape
              /\ ret' = r.ret
              /\ trans' = r.trans
              /\ readchar' = r.char
              /\ state' = r.state
              /\ tape' = r.tape
              /\ head' = r.head
              /\ applied' = IF r.ret = "True" THEN applied + 1 ELSE applied
              /\ step' = IF r.ret = "True" THEN step + 1 ELSE step
              /\ batch' = batch - 1
              /\ pc' = IF r.ret = "raised" THEN "crashed"
                        ELSE IF batch - 1 > 0 THEN "batch" ELSE LoopTop(inpt)
    /\ UNCHANGED <<states, removed, halt, alphabet, inpt, prompts, op, parseVars>>

\* lines 481-500 for an answer that is neither empty nor digits: the command,
\* then print_step, then input() again
AnswerCommand(answer) ==
    /\ pc = "input"
    /\ prompts < MaxPrompts
    /\ answer # <<>>
    /\ ~IsDigit(answer)
    /\ \E width \in Widths :
          LET moved == IF answer = <<"r">> THEN MoveHead(TheTape, RIGHT)
                       ELSE IF answer = <<"l">> THEN MoveHead(TheTape, LEFT)
                       ELSE IF answer[1] = "$" THEN TheTape
                       ELSE IF answer[1] = "+" /\ Len(answer) > 1
                                 /\ InAlphabet(alphabet, answer[2])
                           THEN SetItem(TheTape, 0, answer[2])
                       ELSE TheTape
              P == PrintStep([tape |-> moved.tape, head |-> moved.head], width)
          IN  /\ Len(P.tape) <= MaxTape
              /\ tape' = P.tape
              /\ head' = P.head
    /\ state' = IF answer \notin {<<"r">>, <<"l">>} /\ answer[1] = "$"
                 THEN NewState(Join(Tail(answer))) ELSE state
    /\ inpt' = answer
    /\ prompts' = prompts + 1
    /\ applied' = 0
    /\ pc' = "input"
    /\ UNCHANGED <<states, removed, halt, alphabet, step, batch, stepVars, op, parseVars>>

RunSpecNext ==
    \/ RunStep
    \/ AnswerEmpty
    \/ \E answer \in Answers : AnswerDigits(answer)
    \/ BatchStep
    \/ \E answer \in Answers : AnswerCommand(answer)

RunSpec == RunSpecInit /\ [][RunSpecNext]_vars

----------------------------------------------------------------------------
(* ParseSpec: Parser.parse on a source of up to MaxItems items, each a     *)
(* directive or the head or end of a namespace block, then                 *)
(* make_turing_machine and the first step of run (src/turing.py:14-17)     *)

MaxItems == 3         \* items in a source

\* the items sources are written with
\* the alphabet, the tape string and the initial state: @0; &0; !a;
SrcPrologue == <<"@", "0", ";", " ", "&", "0", ";", " ", "!", "a", ";">>
\* a state: *a;
SrcAddState == <<"*", "a", ";">>
\* a transition: $a:0 -> b:1:R;
SrcTransition == <<"$", "a", ":", "0", " ", "-", ">", " ", "b", ":", "1", ":", "R", ";">>
\* the initial state: !a;
SrcInitial == <<"!", "a", ";">>
\* a halting state: ~b;
SrcHalting == <<"~", "b", ";">>
\* a transition with two characters its scope does not allow: $a:0->b:1:R!!;
SrcBadChars == <<"$", "a", ":", "0", "-", ">", "b", ":", "1", ":", "R", "!", "!", ";">>
\* a halt directive without a body: ~;
SrcEmptyHalt == <<"~", ";">>
\* a transition to the `.`-target zz: $a:0->.zz:1:R;
SrcUnknownTarget == <<"$", "a", ":", "0", "-", ">", ".", "z", "z", ":", "1", ":", "R", ";">>
\* a transition with an empty target: $a:0->:1:R;
SrcEmptyTarget == <<"$", "a", ":", "0", "-", ">", ":", "1", ":", "R", ";">>
\* a transition with four fields: $a:0->b:1;
SrcFourFields == <<"$", "a", ":", "0", "-", ">", "b", ":", "1", ";">>
\* the head of namespace f: :f{
SrcOpenF == <<":", "f", "{">>
\* the head of namespace g: :g{
SrcOpenG == <<":", "g", "{">>
\* the end of a namespace block: }
SrcCloseBlock == <<"}">>
\* a transition to the `.`-target f.a: $a:0->.f.a:1:R;
SrcDotTarget == <<"$", "a", ":", "0", "-", ">", ".", "f", ".", "a", ":", "1", ":", "R", ";">>
\* a transition of the any-state: $*:0->a:0:R;
SrcAnySource == <<"$", "*", ":", "0", "-", ">", "a", ":", "0", ":", "R", ";">>
\* a transition to the `.`-target with the empty name: $a:1->.:0:R;
SrcDotOnly == <<"$", "a", ":", "1", "-", ">", ".", ":", "0", ":", "R", ";">>
\* a tape string: &00;
SrcTapeString == <<"&", "0", "0", ";">>
\* a tape string with a character no tape string may hold: &0!;
SrcTapeBadChar == <<"&", "0", "!", ";">>
\* a transition that writes a letter: $a:0->a:b:R;
SrcWriteLetter == <<"$", "a", ":", "0", "-", ">", "a", ":", "b", ":", "R", ";">>
\* a transition whose direction is a letter other than L and R: $a:0->a:1:b;
SrcBadDirection == <<"$", "a", ":", "0", "-", ">", "a", ":", "1", ":", "b", ";">>
\* a states directive without its terminator: *b
SrcUnterminated == <<"*", "b">>
\* a comment and the end of its line: #a
SrcComment == <<"#", "a", "\n">>
\* a transition for any symbol read: $a:*->a:0:L;
SrcReadAny == <<"$", "a", ":", "*", "-", ">", "a", ":", "0", ":", "L", ";">>
Items ==
    {SrcPrologue, SrcAddState, SrcTransition, SrcInitial, SrcHalting, SrcBadChars,
     SrcEmptyHalt, SrcUnknownTarget, SrcEmptyTarget, SrcFourFields, SrcOpenF, SrcOpenG,
     SrcCloseBlock, SrcDotTarget, SrcAnySource, SrcDotOnly, SrcTapeString,
     SrcTapeBadChar, SrcWriteLetter, SrcBadDirection, SrcUnterminated, SrcComment,
     SrcReadAny}

\* what an item may change: the fields of the Parser, the error count, the
\* scope stack and the token buffers
Snapshot(P) ==
    [states |-> P.states, palphabet |-> P.palphabet, initial |-> P.initial,
     phalt |-> P.phalt, ptape |-> P.ptape, errors |-> P.errors,
     scopes |-> P.scopes, buffer |-> P.buffer, subbuffer |-> P.subbuffer]

\* Parser.__init__ and the locals of parse before the loop
ParseSpecInit ==
    /\ IdleMachine
    /\ IdleRun
    /\ tape = <<>>
    /\ head = 0
    /\ op = [name |-> "init", arg |-> 0, value |-> "", len |-> 0]
    /\ pending = <<>>
    /\ scopes = <<>>
    /\ buffer = <<>>
    /\ subbuffer = <<>>
    /\ errors = 0
    /\ bound = FALSE
    /\ ptape = NoTape
    /\ palphabet = <<>>
    /\ initial = NoName
    /\ phalt = <<>>
    /\ ppc = "scan"
    /\ item = [text |-> <<>>, before |-> Snapshot(TheParser), done |-> TRUE,
               n |-> 0, bad |-> 0]

\* the variables after one iteration of `while queue` that left the parser as r
Scanned(r, rest) ==
    /\ pending' = rest
    /\ scopes' = r.scopes
    /\ buffer' = r.buffer
    /\ subbuffer' = r.subbuffer
    /\ errors' = r.errors
    /\ bound' = r.bound
    /\ states' = r.states
    /\ ptape' = r.ptape
    /\ palphabet' = r.palphabet
    /\ initial' = r.initial
    /\ phalt' = r.phalt
    /\ ppc' = IF r.crashed THEN "crashed" ELSE "scan"
    /\ UNCHANGED <<removed, state, halt, alphabet, tape, head, runVars, stepVars, op>>

\* the loop takes the first character of the next item of the source
ScanFirst(text) ==
    /\ ppc = "scan"
    /\ pending = <<>>
    /\ item.n < MaxItems
    /\ LET r == Scan(TheParser, Head(text))
       IN  /\ Scanned(r, Tail(text))
           /\ item' = [text |-> text, before |-> Snapshot(TheParser),
                       done |-> Tail(text) = <<>>, n |-> item.n + 1,
                       bad |-> IF Tail(text) = <<>> /\ r.errors > errors
                               THEN item.bad + 1 ELSE item.bad]

\* the loop takes the next character of the item
ScanNext ==
    /\ ppc = "scan"
    /\ pending # <<>>
    /\ LET r == Scan(TheParser, Head(pending))
       IN  /\ Scanned(r, Tail(pending))
           /\ item' = [item EXCEPT
                         !.done = Tail(pending) = <<>>,
                         !.bad = IF Tail(pending) = <<>> /\ r.errors > item.before.errors
                                 THEN @ + 1 ELSE @]

\* the queue is empty: lines 476-493
ParseEnd ==
    /\ ppc = "scan"
    /\ pending = <<>>
    /\ LET r == Finish(TheParser)
       IN  /\ errors' = r.errors
           /\ ppc' = IF r.crashed THEN "crashed"
                      ELSE IF r.errors > 0 THEN "failed" ELSE "parsed"
           \* `self.tape = Tape(self.tape)`
           /\ tape' = IF ~r.crashed /\ r.errors = 0 THEN TapeInit(ptape).tape ELSE tape
           /\ head' = IF ~r.crashed /\ r.errors = 0 THEN TapeInit(ptape).head ELSE head
    /\ bound' = (bound \/ (initial # NoName /\ InTable(states, initial)))
    /\ UNCHANGED <<machineVars, runVars, stepVars, op, pending, scopes, buffer,
                   subbuffer, ptape, palphabet, initial, phalt, item>>

\* Parser.make_turing_machine after a successful parse: the states named ''
\* leave the table, then TuringMachine.__init__
MakeTuringMachine ==
    /\ ppc = "parsed"
    /\ states' = KeptStates(states)
    /\ removed' = RemovedStates(states)
    /\ IF ~InTable(KeptStates(states), initial)
       THEN ppc' = "crashed" /\ UNCHANGED <<state, halt, alphabet>>
       ELSE /\ ppc' = "made"
            /\ state' = NewState(initial)
            /\ halt' = DefaultHalt \o [i \in DOMAIN phalt |->
                                         [kind |-> "State", name |-> phalt[i]]]
            /\ alphabet' = DefaultAlphabet \o palphabet
    /\ UNCHANGED <<tape, head, runVars, stepVars, op, pending, scopes, buffer,
                   subbuffer, errors, bound, ptape, palphabet, initial, phalt, item>>

\* machine.run() (src/turing.py:17) calls step before it asks for input:
\* the first step of the machine
FirstStep ==
    /\ ppc = "made"
    /\ \E width \in Widths :
          LET r == Step(states, removed, state, TheTape, width)
          IN  /\ ret' = r.ret
              /\ trans' = r.trans
              /\ readchar' = r.char
              /\ state' = r.state
              /\ tape' = r.tape
              /\ head' = r.head
    /\ ppc' = "stepped"
    /\ UNCHANGED <<states, removed, halt, alphabet, runVars, op, pending, scopes,
                   buffer, subbuffer, errors, bound, ptape, palphabet, initial,
                   phalt, item>>

ParseSpecNext ==
    \/ \E text \in Items : ScanFirst(text)
    \/ ScanNext
    \/ ParseEnd
    \/ MakeTuringMachine
    \/ FirstStep

ParseSpec == ParseSpecInit /\ [][ParseSpecNext]_vars

----------------------------------------------------------------------------
(* ReparseSpec: one source text parsed by a Parser and, when that parse    *)
(* succeeded, by a second Parser constructed for the same file             *)
(* (src/parser.py:132-200).  item.text is the text of the file, item.n the *)
(* number of the Parser at work and item.before what the Parser before it  *)
(* made of the text.                                                       *)

\* the items the sources parsed twice are written with
ReparseItems ==
    {SrcPrologue, SrcAddState, SrcTransition, SrcHalting, SrcOpenF, SrcCloseBlock,
     SrcDotTarget, SrcAnySource}

RECURSIVE Flat(_)
\* the text of a sequence of items
Flat(its) == IF its = <<>> THEN <<>> ELSE Head(its) \o Flat(Tail(its))

\* the source texts of 1..MaxItems items
Sources == {Flat(its) : its \in SeqsUpTo(ReparseItems, MaxItems)}

\* the Parser coming before the first: nothing parsed
NoParser ==
    [states |-> <<>>, palphabet |-> <<>>, initial |-> NoName, phalt |-> <<>>,
     ptape |-> NoTape, errors |-> 0, scopes |-> <<>>, buffer |-> <<>>,
     subbuffer |-> <<>>]

\* a Parser whose halt list is the one of the Parser before it
SharedFields(before) ==
    [states |-> <<>>, ptape |-> NoTape, palphabet |-> <<>>, initial |-> NoName,
     phalt |-> before.phalt]

\* Parser.__init__: the fields of a new Parser, whatever the one before it
\* made of its text
FreshFields(before) ==
    [states |-> <<>>, ptape |-> NoTape, palphabet |-> <<>>, initial |-> NoName,
     phalt |-> <<>>]

\* Parser(file) and the head of parse: the text in the queue, empty locals
Begin(text, before, n) ==
    /\ pending' = text
    /\ item' = [text |-> text, before |-> before, done |-> FALSE, n |-> n, bad |-> 0]
    /\ states' = FreshFields(before).states
    /\ ptape' = FreshFields(before).ptape
    /\ palphabet' = FreshFields(before).palphabet
    /\ initial' = FreshFields(before).initial
    /\ phalt' = FreshFields(before).phalt
    /\ scopes' = <<>>
    /\ buffer' = <<>>
    /\ subbuffer' = <<>>
    /\ errors' = 0
    /\ bound' = FALSE
    /\ tape' = <<>>
    /\ head' = 0
    /\ ppc' = "scan"

ReparseSpecInit ==
    /\ IdleMachine
    /\ IdleRun
    /\ tape = <<>>
    /\ head = 0
    /\ op = [name |-> "init", arg |-> 0, value |-> "", len |-> 0]
    /\ \E text \in Sources :
          /\ pending = text
          /\ item = [text |-> text, before |-> NoParser, done |-> FALSE, n |-> 1,
                     bad |-> 0]
    /\ states = FreshFields(NoParser).states
    /\ ptape = FreshFields(NoParser).ptape
    /\ palphabet = FreshFields(NoParser).palphabet
    /\ initial = FreshFields(NoParser).initial
    /\ phalt = FreshFields(NoParser).phalt
    /\ scopes = <<>>
    /\ buffer = <<>>
    /\ subbuffer = <<>>
    /\ errors = 0
    /\ bound = FALSE
    /\ ppc = "scan"

\* the text was parsed with success: a second Parser parses it
ParseAgain ==
    /\ ppc = "parsed"
    /\ item.n = 1
    /\ Begin(item.text, Snapshot(TheParser), 2)
    /\ UNCHANGED <<removed, state, halt, alphabet, runVars, stepVars, op>>

ReparseSpecNext ==
    \/ ScanNext
    \/ ParseEnd
    \/ ParseAgain

ReparseSpec == ReparseSpecInit /\ [][ReparseSpecNext]_vars

----------------------------------------------------------------------------
(* BuildSpec: the machines one process constructs, one after the other,    *)
(* each from the fields of its own Parser after a successful parse         *)
(* (src/parser.py:495-515, src/model.py:404-431).  halt and alphabet are   *)
(* the lists the class attributes _halt and _alphabet name: `+=` through   *)
(* self extends that list in place, and every instance reads it.           *)

MaxAlphabet == 7      \* symbols in TuringMachine._alphabet

\* the table of the source `$q0:0 -> q1:1:R;`
BuildTables == {Build(<<>>, <<b>>) : b \in {<<"q0", "0", "q1", "1", RIGHT>>}}

\* the alphabets a source declares with `@`, the blank appended
DeclaredAlphabets == {<<"0", BLANK>>, <<"1", BLANK>>}

\* the class statement of TuringMachine has run; no instance yet
BuildSpecInit ==
    /\ states = <<>>
    /\ removed = <<>>
    /\ state = [name |-> "", transitions |-> <<>>]
    /\ halt = DefaultHalt
    /\ alphabet = DefaultAlphabet
    /\ IdleRun
    /\ tape = <<>>
    /\ head = 0
    /\ op = [name |-> "init", arg |-> 0, value |-> "", len |-> 0]
    /\ IdleParser

\* make_turing_machine of a Parser whose parse succeeded with the table S,
\* the initial state S[i], the halt states hs, the alphabet A and the tape
\* string: TuringMachine.__init__
Construct ==
    \E S \in BuildTables, A \in DeclaredAlphabets :
      \E i \in DOMAIN KeptStates(S),
         hs \in {<<>>} \cup {<<S[k].name>> : k \in DOMAIN S},
         string \in {t \in TapeStrings : \A k \in DOMAIN t : InAlphabet(A, t[k])} :
        /\ Len(alphabet) + Len(A) <= MaxAlphabet
        /\ states' = KeptStates(S)
        /\ removed' = RemovedStates(S)
        /\ state' = NewState(KeptStates(S)[i].name)
        /\ initial' = KeptStates(S)[i].name
        /\ phalt' = hs
        /\ palphabet' = A
        /\ ptape' = string
        \* `self._halt += halt`, `self._alphabet += alphabet`
        /\ halt' = halt \o [k \in DOMAIN hs |-> [kind |-> "State", name |-> hs[k]]]
        /\ alphabet' = alphabet \o A
        /\ tape' = TapeInit(string).tape
        /\ head' = TapeInit(string).head
        /\ ppc' = "made"
        /\ UNCHANGED <<runVars, stepVars, op, pending, scopes, buffer, subbuffer,
                       errors, bound, item>>

BuildSpecNext == Construct

BuildSpec == BuildSpecInit /\ [][BuildSpecNext]_vars

----------------------------------------------------------------------------
(* The claims                                                              *)

\* new is old with l blank cells before it and any number of blank cells after
Padded(old, new, l) ==
    /\ Len(new) >= l + Len(old)
    /\ \A i \in 1..Len(new) :
          new[i] = IF i > l /\ i <= l + Len(old) THEN old[i - l] ELSE BLANK

\* position j of ts matches the symbol
MatchAt(ts, j, symbol) == ts[j].char = symbol \/ ts[j].char = ANY

\* the states of the table that carry the current state's name
Named == {i \in DOMAIN states : states[i].name = state.name}

\* C1: step selects, among the transitions of the table state named like the
\* current state, the first in declaration order whose read symbol is the symbol
\* under the head or the wildcard (none if there is none); so a wildcard declared
\* before an exact match shadows it.
C1_FirstMatchInDeclarationOrder ==
    [][\A i \in Named :
         LET ts == states[i].transitions
             symbol == tape[head + 1]
         IN  /\ (\E j \in DOMAIN ts : MatchAt(ts, j, symbol)) =>
                   \E j \in DOMAIN ts :
                      /\ MatchAt(ts, j, symbol)
                      /\ \A k \in 1..(j - 1) : ~MatchAt(ts, k, symbol)
                      /\ trans' = ts[j]
             /\ (\A j \in DOMAIN ts : ~MatchAt(ts, j, symbol)) => trans' = NoTransition
             /\ \A j \in DOMAIN ts, k \in DOMAIN ts :
                   (j < k /\ ts[j].char = ANY /\ ts[k].char = symbol
                      /\ \A m \in 1..(j - 1) : ~MatchAt(ts, m, symbol))
                   => trans' = ts[j]
      ]_vars

\* C1 witness: step selected a wildcard transition although the state holds,
\* declared after it, a transition for exactly the symbol that was read
C1_Witness ==
    /\ ret = "True"
    /\ trans.char = ANY
    /\ \E i \in DOMAIN states :
          /\ states[i].name = trans.state
          /\ Len(states[i].transitions) = 2
          /\ states[i].transitions[1] = trans
          /\ states[i].transitions[2].char = readchar

\* the move of the head a direction stands for
Delta(direction) == IF direction = LEFT THEN -1 ELSE IF direction = RIGHT THEN 1 ELSE 0

\* the tape after the write of symbol w under the head
Written(w) == IF w = ANY THEN tape ELSE [tape EXCEPT ![head + 1] = w]

\* the cells and the head after the write of w and the move alone: the move
\* adds one blank cell when it leaves the tape
MovedCells(w, direction) ==
    IF head + Delta(direction) < 0 THEN <<BLANK>> \o Written(w)
    ELSE IF head + Delta(direction) >= Len(tape) THEN Append(Written(w), BLANK)
    ELSE Written(w)
MovedHead(direction) ==
    IF head + Delta(direction) < 0 THEN 0 ELSE head + Delta(direction)

\* C2 as stated: a matching step writes the write symbol under the head, makes
\* the target the current state and moves the head by the direction, and that is
\* the whole result; from tape 00, head 0, state q0 with q0:0 -> q1:1:R the
\* result is tape 10, head 1, state q1.
C2_AsStated ==
    [][(ret' = "True" /\ trans'.direction \in {LEFT, RIGHT, ANY}) =>
         /\ state'.name = trans'.new_state
         /\ tape' = MovedCells(trans'.new_char, trans'.direction)
         /\ head' = MovedHead(trans'.direction)
         /\ (/\ tape = <<"0", "0">>
             /\ head = 0
             /\ state.name = "q0"
             /\ trans' = [state |-> "q0", char |-> "0", new_state |-> "q1",
                           new_char |-> "1", direction |-> RIGHT])
            => (tape' = <<"1", "0">> /\ head' = 1 /\ state'.name = "q1")
      ]_vars

\* C2, what does hold: after a matching step the cell that was under the head
\* holds the write symbol, the current state is the target, and the head is one
\* cell left (L), one cell right (R) or on the same cell (*); the tape is the
\* old one but for blank cells added at its ends by the move and by print_step.
C2_WriteStateMove ==
    [][(ret' = "True" /\ trans'.direction \in {LEFT, RIGHT, ANY}) =>
         /\ state'.name = trans'.new_state
         /\ \E l \in 0..Len(tape') :
               /\ Padded(Written(trans'.new_char), tape', l)
               /\ head' = head + l + Delta(trans'.direction)
      ]_vars

\* the example's step has been taken, and print_step added cells
C2_Padded ==
    /\ ret = "True"
    /\ trans = [state |-> "q0", char |-> "0", new_state |-> "q1",
                 new_char |-> "1", direction |-> RIGHT]
    /\ state.name = "q1"
    /\ head >= 1
    /\ tape[head] = "1"
    /\ tape[head + 1] = "0"
    /\ Len(tape) > 2

\* the transitions the current state has: those of the table state of its name,
\* or its own when the table has none
CurrentTransitions ==
    IF Named # {} THEN states[CHOOSE i \in Named : TRUE].transitions
    ELSE state.transitions

\* C3: if no transition of the current state matches the symbol under the head
\* (also when the state is not in the table), step changes neither state nor
\* tape nor head and returns False.
C3_NoMatchNoChange ==
    [][(\A j \in DOMAIN CurrentTransitions :
           ~MatchAt(CurrentTransitions, j, tape[head + 1]))
       => (/\ state' = state
           /\ tape' = tape
           /\ head' = head
           /\ ret' = "False"
           /\ trans' = NoTransition)
      ]_vars

\* C3 witness: step returned False in a state that has transitions
C3_Witness ==
    /\ ret = "False"
    /\ Named # {}
    /\ CurrentTransitions # <<>>
    /\ \A j \in DOMAIN CurrentTransitions : ~MatchAt(CurrentTransitions, j, readchar)

\* C4: a matching step whose write symbol is the wildcard leaves every cell,
\* the one under the head included, with its content.
C4_WildcardWriteKeepsCell ==
    [][(ret' = "True" /\ trans'.new_char = ANY) =>
         \E l \in 0..Len(tape') :
            /\ Padded(tape, tape', l)
            /\ tape'[head + l + 1] = tape[head + 1]
      ]_vars

\* C4 witness: a wildcard write was applied on a cell holding 0, which is now
\* right of the head and still holds 0
C4_Witness ==
    /\ ret = "True"
    /\ trans.new_char = ANY
    /\ trans.direction = LEFT
    /\ readchar = "0"
    /\ tape[head + 2] = "0"

\* the index an accessor call addresses, given the call made and the head before it
Addressed(call, headBefore) ==
    IF call.name = "head" THEN call.arg
    ELSE IF call.name = "move_head" THEN headBefore + Delta(call.value)
    ELSE headBefore + call.arg

\* the cells an access of index a needs on the left and on the right of a tape
\* of n cells
NeedLeft(a) == IF a < 0 THEN 0 - a ELSE 0
NeedRight(a, n) == IF a >= n THEN a - n + 1 ELSE 0

\* C5: an access outside the bounds grows the tape by exactly the cells needed to
\* cover the addressed index; the new cells are blank (but for the value a write
\* stores in the addressed cell), the old cells keep content and order, and after
\* an insertion on the left the head designates the same cell (a read, a write)
\* or the addressed cell (a head move).
C5_AutoExtension ==
    [][LET a == Addressed(op', head)
           l == NeedLeft(a)
           r == NeedRight(a, Len(tape))
           moved == op'.name \in {"head", "move_head"}
           stored == op'.name = "setitem" /\ op'.value # ANY
       IN  /\ Len(tape') = l + Len(tape) + r
           /\ \A i \in 1..Len(tape') :
                 tape'[i] = IF stored /\ i = a + l + 1 THEN op'.value
                            ELSE IF i > l /\ i <= l + Len(tape) THEN tape[i - l]
                            ELSE BLANK
           /\ head' = IF moved THEN a + l ELSE head + l
           /\ op'.name = "getitem" => op'.value = tape'[a + l + 1]
      ]_vars

\* C5 witness: a read left of the first cell has grown the tape by two cells and
\* shifted the head by two
C5_Witness ==
    /\ op.name = "getitem"
    /\ op.arg < 0
    /\ Len(tape) = op.len + 2
    /\ head + op.arg = 0
    /\ head >= 2
    /\ tape[1] = BLANK /\ tape[2] = BLANK

\* C6: the tape has at least one cell and the head is an index of it, from
\* construction on and after any sequence of accessor calls.
C6_HeadWithinTape ==
    /\ Len(tape) >= 1
    /\ 0 <= head
    /\ head < Len(tape)

\* C6 witness: the head was assigned an index right of the last cell, and is now
\* on the last cell of a longer tape
C6_Witness ==
    /\ op.name = "head"
    /\ op.arg >= op.len
    /\ head = op.arg
    /\ head = Len(tape) - 1

\* C7 as stated: whenever the current state is named HALT, the run loop's halting
\* test `self.state in self.halt` is true.
C7_AsStated ==
    (pc = "input" /\ state.name = "HALT") => InHalt(halt, state)

\* C8 as stated: once input() has returned q, run has left its loop: no further
\* call of input() and no further step.
C8_AsStated ==
    inpt = <<"q">> => pc = "done"

\* C9 as stated: between the prompt that received the integer n and the next
\* prompt at most n transitions are applied, and once a step of the batch has
\* found no transition no further step of the batch is attempted.
C9_AsStated ==
    /\ (pc = "input" /\ IsDigit(inpt)) => applied <= IntOf(inpt)
    /\ (pc \in {"batch", "loop"} /\ IsDigit(inpt))
          => (IntOf(inpt) - batch) <= applied + 1

\* C10 as stated: no step whose resulting state is a halting state increments
\* the step counter, in the outer loop or in an integer batch.
C10_AsStated ==
    [][step' = step + 1 => ~InHalt(halt, state')]_vars

\* C11 as stated: once the current state is a halting state, the step that
\* follows an empty answer and the steps of an integer batch apply no
\* transition, so the current state stays what it is.
C11_AsStated ==
    [][(InHalt(halt, state) /\ prompts > 0 /\ pc \in {"loop", "batch"})
         => (ret' # "True" /\ state' = state)]_vars

\* C12 as stated: parse is total.  No step of parse ends with an exception
\* leaving it; when the input is exhausted parse returns success with no
\* error counted and the declared tape string made a Tape, or failure with a
\* positive error count.
C12_AsStated ==
    [][ppc = "scan"
         => /\ ppc' \in {"scan", "parsed", "failed"}
            /\ ppc' = "parsed" => (errors' = 0 /\ ptape # NoTape
                                   /\ tape' = TapeInit(ptape).tape)
            /\ ppc' = "failed" => errors' > 0]_vars

\* the scanner at an item boundary: namespace level, empty token buffers
AtBoundary(b) ==
    Top(b.scopes) = NSPC /\ b.buffer = <<>> /\ b.subbuffer = <<>>

\* C13 as stated: the error count counts directives, not invalid characters;
\* a directive scanned from an item boundary adds at most one error, however
\* many of its characters are invalid, so k malformed directives count k.
C13_AsStated ==
    (ppc = "scan" /\ item.done /\ AtBoundary(item.before))
      => errors - item.before.errors <= 1

\* the fields of the Parser are what they were before the item
Untouched ==
    /\ states = item.before.states
    /\ palphabet = item.before.palphabet
    /\ initial = item.before.initial
    /\ phalt = item.before.phalt
    /\ ptape = item.before.ptape

\* C14 as stated: a malformed directive has no effect; when an error was
\* reported for a directive scanned from an item boundary, the table, the
\* alphabet, the initial state, the halt set and the tape string are what
\* they were before the directive.
C14_AsStated ==
    (ppc = "scan" /\ item.done /\ AtBoundary(item.before)
       /\ errors > item.before.errors)
      => Untouched

\* C15 as stated: error recovery is local; after a directive scanned from an
\* item boundary for which an error was reported, the token buffers are empty
\* and the scope stack is what it was before the directive.
C15_AsStated ==
    (ppc = "scan" /\ item.done /\ AtBoundary(item.before)
       /\ errors > item.before.errors)
      => (buffer = <<>> /\ subbuffer = <<>> /\ scopes = item.before.scopes)

RECURSIVE OpenNames(_)
\* the names of the namespace blocks open on a scope stack, outermost first
OpenNames(sc) ==
    IF sc = <<>> THEN <<>>
    ELSE IF Head(sc).scope = NSPC THEN <<Head(sc).name>> \o OpenNames(Tail(sc))
    ELSE OpenNames(Tail(sc))

RECURSIVE Qualified(_, _)
\* outer1.outer2...outerk.name
Qualified(outer, name) ==
    IF outer = <<>> THEN name ELSE Head(outer) \o "." \o Qualified(Tail(outer), name)

\* the name a bare name of the item just scanned stands for
InItem(name) == Qualified(OpenNames(item.before.scopes), name)

\* an item scanned from an item boundary, and no error reported for it
Accepted(text) ==
    /\ ppc = "scan"
    /\ item.done
    /\ item.text = text
    /\ AtBoundary(item.before)
    /\ errors = item.before.errors

\* C16: a bare state name in `*`, `!`, `~` or as source or target of `$` is
\* the name qualified by the namespace blocks open at the directive, outermost
\* first; a target written .f.a is the state f.a whatever blocks are open.
C16_NamespaceQualification ==
    /\ Accepted(SrcAddState)
          => states = AppendState(item.before.states, NewState(InItem("a")))
    /\ Accepted(SrcInitial) => initial = InItem("a")
    /\ Accepted(SrcHalting) => phalt = Append(item.before.phalt, InItem("b"))
    /\ Accepted(SrcTransition)
          => states = AppendList(item.before.states,
                                 <<InItem("a"), "0", InItem("b"), "1", "R">>)
    /\ Accepted(SrcDotTarget)
          => states = AppendList(item.before.states,
                                 <<InItem("a"), "0", "f.a", "1", "R">>)

\* a transition to .f.a accepted inside a namespace block
C16_Witness ==
    /\ Accepted(SrcDotTarget)
    /\ OpenNames(item.before.scopes) # <<>>
    /\ \E i \in DOMAIN states : \E j \in DOMAIN states[i].transitions :
          /\ states[i].name = "f.a"
          /\ states[i].transitions[j].new_state = "f.a"

\* C17 as stated: every scope entered is popped by its terminator; between
\* two items of a source scanned without error, when every namespace block
\* that was opened has been closed, the scope stack is empty.
C17_AsStated ==
    (ppc = "scan" /\ item.done /\ errors = 0 /\ OpenNames(scopes) = <<>>)
      => scopes = <<>>

\* the name X of the target .X of an item, for the items that have one
DotTargets ==
    {<<SrcUnknownTarget, "zz">>, <<SrcDotTarget, "f.a">>, <<SrcDotOnly, "">>}

\* the item just scanned, from an item boundary, is a transition to .X and
\* the table before it has no state named X
UnknownDotTarget ==
    /\ ppc = "scan"
    /\ item.done
    /\ AtBoundary(item.before)
    /\ \E d \in DotTargets :
          /\ item.text = d[1]
          /\ \A i \in DOMAIN item.before.states : item.before.states[i].name # d[2]

\* C18: a transition whose target is written .X, with no state named X in the
\* table, is counted as an error and adds neither a transition nor a state.
C18_UnknownDotTarget ==
    UnknownDotTarget
      => (errors = item.before.errors + 1 /\ states = item.before.states)

\* a transition to .zz was scanned with states in the table
C18_Witness ==
    /\ UnknownDotTarget
    /\ item.text = SrcUnknownTarget
    /\ item.before.states # <<>>
    /\ errors = item.before.errors + 1

\* C19 as stated: the initial state is validated when the input is exhausted
\* and not before; parse returns failure with at least one error when no `!`
\* directive was accepted or no state of the table has the initial state's
\* name, and a `!` directive naming a state not yet in the table is no error.
C19_AsStated ==
    [][/\ (/\ ppc = "scan" /\ ppc' # "scan" /\ item' = item
           /\ \/ initial = NoName
              \/ \A i \in DOMAIN states : states[i].name # initial)
          => (ppc' = "failed" /\ errors' >= 1)
       /\ (/\ ppc' = "scan" /\ item'.done /\ item'.text = SrcInitial
           /\ AtBoundary(item'.before))
          => errors' = item'.before.errors]_vars

\* C20 as stated: in the machine make_turing_machine produces after a
\* successful parse, the target state of every transition of every state of
\* the table is a state of the table.
C20_AsStated ==
    ppc = "made"
      => \A i \in DOMAIN states : \A j \in DOMAIN states[i].transitions :
           \E k \in DOMAIN states :
             states[k].name = states[i].transitions[j].new_state

\* the characters of the tape string of an item, for the items that are a `&`
\* directive
TapeItems ==
    {<<SrcTapeString, <<"0", "0">> >>, <<SrcTapeBadChar, <<"0", "!">> >>}

\* C21 as stated: a `&` directive is accepted exactly when each of its
\* characters is in the alphabet declared before it; accepted, it becomes the
\* tape content and adds no error, a declaration before it or not; rejected,
\* it is an error and the content kept so far stays.
C21_AsStated ==
    \A d \in TapeItems :
      (ppc = "scan" /\ item.done /\ item.text = d[1] /\ AtBoundary(item.before))
        => IF \A i \in DOMAIN d[2] :
                \E j \in DOMAIN item.before.palphabet :
                  item.before.palphabet[j] = d[2][i]
           THEN ptape = d[2] /\ errors = item.before.errors
           ELSE ptape = item.before.ptape /\ errors > item.before.errors

\* C22 as stated: machine instances are independent; the halting set of a
\* machine holds `HALT` and the halt states of its own source, and its
\* alphabet the symbols of the class and those its own source declared,
\* nothing another machine's source declared.
C22_AsStated ==
    ppc = "made"
      => /\ \A k \in DOMAIN halt :
              \/ halt[k] \in {DefaultHalt[d] : d \in DOMAIN DefaultHalt}
              \/ \E h \in DOMAIN phalt : halt[k].name = phalt[h]
         /\ \A k \in DOMAIN alphabet :
              \/ InAlphabet(DefaultAlphabet, alphabet[k])
              \/ InAlphabet(palphabet, alphabet[k])

C24_AsStated ==
    ppc \in {"made", "stepped"}
      => \A i \in DOMAIN tape : InAlphabet(alphabet, tape[i])

\* the strings of one character a transition directive may hold
OneCharacter == Alnum \cup ALLOWED \cup {".", ANY}

\* C25 as stated: in the table of a successful parse the read and the write
\* field of each transition are one character or the wildcard, and the
\* direction is L, R or the wildcard.
C25_AsStated ==
    ppc = "parsed"
      => \A i \in DOMAIN states : \A j \in DOMAIN states[i].transitions :
           LET t == states[i].transitions[j]
           IN  /\ t.char \in OneCharacter
               /\ t.new_char \in OneCharacter
               /\ t.direction \in {LEFT, RIGHT, ANY}

\* C26 as stated: a transition declared for any state is applicable by step
\* whatever the current state is; when the source declares one for the symbol
\* under the head, the first step of the machine applies a transition.
C26_AsStated ==
    ppc = "stepped"
      => \A i \in DOMAIN removed : \A j \in DOMAIN removed[i].transitions :
           (removed[i].name = "" /\ removed[i].transitions[j].char \in {readchar, ANY})
             => ret # "False"

\* input() has returned an answer that starts with c, and the command is done
Commanded(c) ==
    /\ pc = "input"
    /\ prompts' = prompts + 1
    /\ inpt' # <<>>
    /\ inpt'[1] = c
    /\ ~IsDigit(inpt')

\* the tape holds what it held, blank cells added at its ends or not, and the
\* head is over the cell it was over
SameTape ==
    \E l \in 0..Len(tape') : Padded(tape, tape', l) /\ head' = head + l

\* C27 as stated: `+<symbol>` writes the symbol under the head when it is in
\* the alphabet the source declared (the blank included), and otherwise
\* leaves tape contents, head and current state as they were.
C27_AsStated ==
    [][Commanded("+")
         => IF Len(inpt') > 1 /\ InAlphabet(DeclaredAlphabet, inpt'[2])
            THEN tape'[head' + 1] = inpt'[2] /\ state' = state
            ELSE SameTape /\ state' = state]_vars

\* the tape holds what it held, blank cells added at its ends or not, and the
\* head is d cells to the right of the cell it was over
ShiftedHead(d) ==
    \E l \in 0..Len(tape') : Padded(tape, tape', l) /\ head' = head + l + d

\* C28 as stated: `r` and `l` move the head by one cell, blank cells added at
\* the edges, and leave the current state and the tape contents; `$<name>`
\* makes the state named <name> the current state, in the table or not, and
\* leaves tape and head unchanged.
C28_AsStated ==
    [][/\ Commanded("r") /\ inpt' = <<"r">> => (ShiftedHead(1) /\ state' = state)
       /\ Commanded("l") /\ inpt' = <<"l">> => (ShiftedHead(-1) /\ state' = state)
       /\ Commanded("$")
            => /\ state' = NewState(Join(Tail(inpt')))
               /\ tape' = tape
               /\ head' = head]_vars

\* the commands up to the blank cells that print_step adds at the ends of the
\* tape: `$<name>` leaves the tape contents and the cell under the head
C28_UpToPadding ==
    [][/\ Commanded("r") /\ inpt' = <<"r">> => (ShiftedHead(1) /\ state' = state)
       /\ Commanded("l") /\ inpt' = <<"l">> => (ShiftedHead(-1) /\ state' = state)
       /\ Commanded("$")
            => (state' = NewState(Join(Tail(inpt'))) /\ ShiftedHead(0))]_vars

\* a namespace block or a directive is open on the scope stack
OpenConstruct ==
    \/ OpenNames(scopes) # <<>>
    \/ Top(scopes) \in {TSTR, ASTS, ATRS, INIT, HLTS, ALPH}

\* C29 as stated: no construct is dropped silently; when the input ends while
\* a directive or a namespace block is open, parse does not return success.
C29_AsStated ==
    [][(ppc = "scan" /\ ppc' # "scan" /\ item' = item /\ OpenConstruct)
         => ppc' # "parsed"]_vars

\* the item just scanned is `*a;`, scanned from an item boundary, and the table
\* before it has the state the name stands for
Redeclared ==
    /\ ppc = "scan"
    /\ item.done
    /\ item.text = SrcAddState
    /\ AtBoundary(item.before)
    /\ \E i \in DOMAIN item.before.states : item.before.states[i].name = InItem("a")

\* C30: no two states of the table have the same name, whatever constructs
\* were scanned; declaring with `*` a state the table has adds no error and
\* leaves the table, the transitions of that state included.
C30_UniqueStates ==
    /\ \A i, j \in DOMAIN states : states[i].name = states[j].name => i = j
    /\ Redeclared => (errors = item.before.errors /\ states = item.before.states)

\* `*a;` was scanned when state a had a transition
C30_Witness ==
    /\ Redeclared
    /\ \E i \in DOMAIN states :
          states[i].name = InItem("a") /\ states[i].transitions # <<>>

\* the scopes of the directives and of the comment
DirectiveScopes == {TSTR, ALPH, ATRS, INIT, HLTS, ASTS, CMNT}

\* C31: between any two characters of any parse, the scope stack holds at most
\* one directive or comment scope, that scope is the top entry, and every
\* entry below the top is a namespace or a find-namespace-name entry.
C31_ScopesExclusive ==
    /\ Cardinality({i \in DOMAIN scopes : scopes[i].scope \in DirectiveScopes}) <= 1
    /\ \A i \in DOMAIN scopes :
          /\ scopes[i].scope \in DirectiveScopes => i = Len(scopes)
          /\ i < Len(scopes) => scopes[i].scope \in {NSPC, FNSP}

\* the scanner is inside a directive of a namespace block that lies in
\* another namespace block
C31_Witness ==
    /\ ppc = "scan"
    /\ pending # <<>>
    /\ Top(scopes) \in DirectiveScopes
    /\ Len(OpenNames(scopes)) = 2

\* C32 as stated: the first step of a machine made from a source the parser
\* accepted either returns True, with the write, the state change and the
\* head move of the transition it selected all performed, or leaves the
\* current state, the tape and the head as they were before the call.
C32_AsStated ==
    [][(ppc = "made" /\ ppc' = "stepped")
         => \/ ret' = "True"
            \/ (state' = state /\ tape' = tape /\ head' = head)]_vars

\* the items that declare a transition of state a for the symbol 0, each with
\* the target as written (bare, or after the dot), the symbol written and the
\* direction
Declarations ==
    {[text |-> SrcTransition, bare |-> TRUE, target |-> "b", write |-> "1",
      direction |-> "R"],
     [text |-> SrcWriteLetter, bare |-> TRUE, target |-> "a", write |-> "b",
      direction |-> "R"],
     [text |-> SrcBadDirection, bare |-> TRUE, target |-> "a", write |-> "1",
      direction |-> "b"],
     [text |-> SrcDotTarget, bare |-> FALSE, target |-> "f.a", write |-> "1",
      direction |-> "R"]}

\* the transition the declaration d stands for where it was scanned
Declared(d) ==
    [state |-> InItem("a"), char |-> "0",
     new_state |-> IF d.bare THEN InItem(d.target) ELSE d.target,
     new_char |-> d.write, direction |-> d.direction]

\* C33: a state never holds two transitions for one read symbol; a transition
\* declared for a state and a read symbol the state already has a transition
\* for takes the place of that transition, with the target, the written symbol
\* and the direction of the new declaration, and every other entry of the
\* state stays where it was in the order step scans.
C33_OnePerReadSymbol ==
    /\ \A i \in DOMAIN states : \A j, k \in DOMAIN states[i].transitions :
          states[i].transitions[j].char = states[i].transitions[k].char => j = k
    /\ \A d \in Declarations : \A i \in DOMAIN item.before.states :
          LET old == item.before.states[i].transitions
          IN  (/\ Accepted(d.text)
               /\ item.before.states[i].name = InItem("a")
               /\ \E j \in DOMAIN old : old[j].char = "0")
                => /\ states[i].name = InItem("a")
                   /\ Len(states[i].transitions) = Len(old)
                   /\ \A j \in DOMAIN old :
                         states[i].transitions[j] =
                           IF old[j].char = "0" THEN Declared(d) ELSE old[j]

\* state a had a transition for 0 and, after it, one for any symbol; 0 was
\* declared again with another target and another written symbol
C33_Witness ==
    /\ Accepted(SrcWriteLetter)
    /\ \E i \in DOMAIN item.before.states :
          /\ item.before.states[i].name = InItem("a")
          /\ Len(item.before.states[i].transitions) = 2
          /\ item.before.states[i].transitions[1].char = "0"
          /\ item.before.states[i].transitions[1].new_state # InItem("a")
          /\ item.before.states[i].transitions[2].char = ANY

====
